---- MODULE Spec2Model ----
(***************************************************************************)
(* Lisper: a tree-walking evaluator for a small s-expression language.     *)
(*                                                                         *)
(* The evaluator (src/src/eval.rs) is a set of mutually recursive Rust     *)
(* functions.  It is modelled as a machine whose stack holds one record    *)
(* per active call of evaluate_expr.  One step runs the topmost call from  *)
(* the point where it was entered (or where its last nested evaluation     *)
(* returned) up to the point where it either starts the next nested        *)
(* evaluation, returns to its caller, or brings the process down.          *)
(* Environments (src/src/scope.rs) are Rc<RefCell<Scope>> handles; they    *)
(* are modelled as indices into a heap of scopes.                          *)
(***************************************************************************)
EXTENDS Integers, Sequences, FiniteSets, TLC

VARIABLES
    scopes,           \* heap of Scope objects, indexed by handle; 1 is the driver's root
    stack,            \* active evaluate_expr calls, outermost first
    out,              \* values written to the output sink by print, oldest first
    status,           \* "idle" (driver owns control), "running", "crashed"
    result,           \* what the last finished evaluate call returned to the driver
    history,          \* expressions the driver has handed to evaluate so far
    overflow_checks   \* build setting: TRUE = integer overflow panics, FALSE = it wraps

vars == <<scopes, stack, out, status, result, history, overflow_checks>>

---------------------------------------------------------------------------
(* Bounds of the model *)

\* i64 is modelled as a two's complement integer of IntBits bits
IntBits == 8

\* number of activations the host stack holds before it overflows; large enough
\* for a chain of nested evaluations to run into MAX_RECURSION_DEPTH first
HostStackMax == 1030

\* number of expressions a driver hands to evaluate in one run
MaxLines == 4

\* the same, for runs whose expressions are evaluated independently of each other
MaxCtlLines == 2

\* the same, for runs of one arithmetic expression
MaxArithLines == 1

\* the same, for runs that define a recursive closure and call it
MaxRecLines == 2

---------------------------------------------------------------------------
(* Expr (src/src/expr.rs) *)

Integer(n) == [t |-> "Integer", n |-> n]
Boolean(b) == [t |-> "Boolean", b |-> b]
If == [t |-> "If"]
Op(s) == [t |-> "Op", s |-> s]
Keyword(s) == [t |-> "Keyword", s |-> s]
Symbol(s) == [t |-> "Symbol", s |-> s]
List(l) == [t |-> "List", l |-> l]
Lambda(params, body, env) == [t |-> "Lambda", params |-> params, body |-> body, env |-> env]
NoOp == [t |-> "NoOp"]

(* EvalError (src/src/eval.rs) *)

UndefinedVariable(s) == [t |-> "UndefinedVariable", s |-> s]
UndefinedFunction(s) == [t |-> "UndefinedFunction", s |-> s]
ArgumentCount(s, n) == [t |-> "ArgumentCount", s |-> s, n |-> n]
IllegalArgument(s, msg) == [t |-> "IllegalArgument", s |-> s, msg |-> msg]
Unimplemented == [t |-> "Unimplemented"]
MaximumRecursionDepthReached(n) == [t |-> "MaximumRecursionDepthReached", n |-> n]
Unreachable == [t |-> "Unreachable"]
Internal == [t |-> "Internal"]

(* Result<Expr, EvalError> and Option<Expr> *)

Ok(v) == [ok |-> TRUE, v |-> v]
Err(e) == [ok |-> FALSE, v |-> e]
None == [t |-> "None"]

MAX_RECURSION_DEPTH == 1024

---------------------------------------------------------------------------
(* i64 arithmetic *)

INT_MIN == -(2 ^ (IntBits - 1))
INT_MAX == 2 ^ (IntBits - 1) - 1

InRange(x) == INT_MIN <= x /\ x <= INT_MAX

\* the value a wrapping operation leaves when overflow checks are off
Wrap(x) == ((x - INT_MIN) % (2 ^ IntBits)) + INT_MIN

Abs(x) == IF x < 0 THEN -x ELSE x

\* Rust's integer division truncates toward zero (b # 0)
TruncDiv(a, b) ==
    IF (a < 0) = (b < 0) THEN Abs(a) \div Abs(b) ELSE -(Abs(a) \div Abs(b))

---------------------------------------------------------------------------
(* Scope (src/src/scope.rs) *)

NoEntities == [k \in {} |-> NoOp]

Scope_new == [entities |-> NoEntities, parent |-> 0]

\* returns the heap with a fresh scope appended; its handle is Len(sc) + 1
Scope_extend(sc, from) == Append(sc, [entities |-> NoEntities, parent |-> from])

\* a set that always binds in the root frame
Scope_set_global(sc, env, key, value) ==
    [sc EXCEPT ![1].entities = (key :> value) @@ @]

\* a set that keeps the binding the frame already has
Scope_set_keep(sc, env, key, value) ==
    [sc EXCEPT ![env].entities = @ @@ (key :> value)]

Scope_set(sc, env, key, value) ==
    [sc EXCEPT ![env].entities = (key :> value) @@ @]

RECURSIVE Scope_get(_, _, _)
Scope_get(sc, env, key) ==
    IF key \in DOMAIN sc[env].entities
    THEN sc[env].entities[key]
    ELSE IF sc[env].parent = 0
         THEN None
         ELSE Scope_get(sc, sc[env].parent, key)

---------------------------------------------------------------------------
(* Activations and the outcome of one step of an activation *)

\* a call evaluate_expr(expr, env, depth) that has just been entered:
\*   acc  results of the nested evaluations it has made so far
\*   fn   the closure it fetched (closure calls only)
\*   ext  handle of the frame it created with Scope::extend (closure calls only)
Activation(e, env, depth) ==
    [expr |-> e, env |-> env, depth |-> depth, acc |-> <<>>, fn |-> NoOp, ext |-> 0]

\* evaluate(expr, env): the nested evaluation starts again at depth 0
evaluate(e, env) == Activation(e, env, 0)

\* the activation goes on with the nested evaluation child
Invoke(a, sc, child) ==
    [k |-> "call", act |-> a, scopes |-> sc, child |-> child,
     res |-> Ok(NoOp), written |-> <<>>]

\* the activation returns res to its caller
Ret(a, sc, res) ==
    [k |-> "ret", act |-> a, scopes |-> sc, child |-> a, res |-> res, written |-> <<>>]

\* the activation prints v and returns it
RetWrite(a, sc, v) ==
    [k |-> "ret", act |-> a, scopes |-> sc, child |-> a, res |-> Ok(v), written |-> <<v>>]

\* the activation panics
Panic(a, sc) ==
    [k |-> "panic", act |-> a, scopes |-> sc, child |-> a, res |-> Ok(NoOp), written |-> <<>>]

\* marks a computation that panicked instead of producing a Result
Crash == [ok |-> FALSE, v |-> [t |-> "panic"]]

\* first error among a sequence of results, or None: iter().find(|r| r.is_err())
FirstErr(rs) ==
    IF \E i \in 1..Len(rs) : ~rs[i].ok
    THEN rs[CHOOSE i \in 1..Len(rs) : ~rs[i].ok /\ \A j \in 1..(i - 1) : rs[j].ok]
    ELSE None

---------------------------------------------------------------------------
(* Built-in operators (evaluate_binary_op, compare_integers) *)

\* result of an i64 operation whose exact value is x
Checked(x, oc) ==
    IF InRange(x) THEN Ok(Integer(x))
    ELSE IF oc THEN Crash
    ELSE Ok(Integer(Wrap(x)))

\* the accumulation loops of + - * / over evaluated arguments, from argument i on
RECURSIVE arith_loop(_, _, _, _, _)
arith_loop(op, evaluated, i, acc, oc) ==
    IF i > Len(evaluated) THEN Ok(Integer(acc))
    ELSE IF evaluated[i].v.t # "Integer"
    THEN Err(IllegalArgument(op, "All arguments must be numbers"))
    ELSE LET value == evaluated[i].v.n
             r == CASE op = "+" -> Checked(acc + value, oc)
                    [] op = "*" -> Checked(acc * value, oc)
                    [] op = "-" -> IF i = 1 THEN Ok(Integer(value))
                                   ELSE Checked(acc - value, oc)
                    [] op = "/" -> IF i = 1 THEN Ok(Integer(value))
                                   ELSE IF value = 0 THEN Crash
                                   ELSE IF acc = INT_MIN /\ value = -1 THEN Crash
                                   ELSE Ok(Integer(TruncDiv(acc, value)))
         IN IF r = Crash THEN Crash
            ELSE arith_loop(op, evaluated, i + 1, r.v.n, oc)

\* the accumulation loops of and / or
RECURSIVE logic_loop(_, _, _, _)
logic_loop(op, evaluated, i, acc) ==
    IF i > Len(evaluated) THEN Ok(Boolean(acc))
    ELSE IF evaluated[i].v.t # "Boolean"
    THEN Err(IllegalArgument("and", "All arguments must be booleans"))
    ELSE logic_loop(op, evaluated, i + 1,
                    IF op = "and" THEN acc /\ evaluated[i].v.b ELSE acc \/ evaluated[i].v.b)

\* ">=" read as ">"
predicate_strict(op, x, y) ==
    CASE op = "<" -> x < y
      [] op = "<=" -> x <= y
      [] op = ">" -> x > y
      [] op = ">=" -> x > y

predicate(op, x, y) ==
    CASE op = "<" -> x < y
      [] op = "<=" -> x <= y
      [] op = ">" -> x > y
      [] op = ">=" -> x >= y

\* only the first window is compared
compare_integers_first_window(evaluated, op) ==
    IF FirstErr(evaluated) # None THEN FirstErr(evaluated)
    ELSE IF \E i \in 1..Len(evaluated) : evaluated[i].v.t # "Integer"
    THEN Err(IllegalArgument("compare", "All arguments must be numbers"))
    ELSE Ok(Boolean(\A i \in 1..(Len(evaluated) - 1) :
                        i = 1 => predicate(op, evaluated[i].v.n, evaluated[i + 1].v.n)))

\* compare_integers once every argument has been evaluated
compare_integers(evaluated, op) ==
    IF FirstErr(evaluated) # None THEN FirstErr(evaluated)
    ELSE IF \E i \in 1..Len(evaluated) : evaluated[i].v.t # "Integer"
    THEN Err(IllegalArgument("compare", "All arguments must be numbers"))
    ELSE Ok(Boolean(\A i \in 1..(Len(evaluated) - 1) :
                        predicate(op, evaluated[i].v.n, evaluated[i + 1].v.n)))

\* the first argument is compared with the last one only
not_equal_ends(evaluated) ==
    Ok(Boolean(~(evaluated[Len(evaluated)].v = evaluated[1].v)))

\* the "!=" arm once every argument has been evaluated without error;
\* evaluated.first() is never None here, the list has an argument
not_equal(evaluated) ==
    Ok(Boolean(~(\A i \in 1..Len(evaluated) : evaluated[i].v = evaluated[1].v)))

\* the argument is evaluated first
evaluate_not_evaluating(a, sc) ==
    LET list == a.expr.l IN
    IF Len(list) # 2 THEN Ret(a, sc, Err(ArgumentCount("not", 1)))
    ELSE IF Len(a.acc) < 1 THEN Invoke(a, sc, evaluate(list[2], a.env))
    ELSE IF ~a.acc[1].ok THEN Ret(a, sc, a.acc[1])
    ELSE IF a.acc[1].v.t = "Boolean" THEN Ret(a, sc, Ok(Boolean(~a.acc[1].v.b)))
    ELSE Ret(a, sc, Err(IllegalArgument("not", "Argument must be a boolean")))

\* the "not" arm: &list[1] is matched as it was written
evaluate_not(a, sc) ==
    LET list == a.expr.l IN
    IF Len(list) # 2 THEN Ret(a, sc, Err(ArgumentCount("not", 1)))
    ELSE IF list[2].t = "Boolean" THEN Ret(a, sc, Ok(Boolean(~list[2].b)))
    ELSE Ret(a, sc, Err(IllegalArgument("not", "Argument must be a boolean")))

Operators == {"+", "-", "*", "/", "=", "!=", "<", "<=", ">", ">=", "and", "or", "not"}

evaluate_binary_op(a, sc, oc) ==
    LET list == a.expr.l
        op == list[1]
        args == SubSeq(list, 2, Len(list))
        evaluated == a.acc
    IN  IF Len(list) < 2
        THEN Ret(a, sc, Err(ArgumentCount(IF op.t = "Op" THEN op.s ELSE "function", 2)))
        ELSE IF op.t # "Op" THEN Ret(a, sc, Err(Unreachable))
        ELSE IF op.s \notin Operators THEN Ret(a, sc, Err(Unimplemented))
        ELSE IF op.s = "not" THEN evaluate_not(a, sc)
        \* args.iter().map(|expr| evaluate(expr, env)).collect(): every argument, in order
        ELSE IF Len(evaluated) < Len(args)
        THEN Invoke(a, sc, evaluate(args[Len(evaluated) + 1], a.env))
        ELSE IF op.s \in {"<", "<=", ">", ">="}
        THEN Ret(a, sc, compare_integers(evaluated, op.s))
        ELSE IF FirstErr(evaluated) # None THEN Ret(a, sc, FirstErr(evaluated))
        ELSE CASE op.s \in {"+", "-", "*", "/"} ->
                    LET r == arith_loop(op.s, evaluated, 1, IF op.s = "*" THEN 1 ELSE 0, oc)
                    IN  IF r = Crash THEN Panic(a, sc) ELSE Ret(a, sc, r)
               [] op.s = "=" ->
                    Ret(a, sc, Ok(Boolean(\A i \in 1..(Len(evaluated) - 1) :
                                              evaluated[i].v = evaluated[i + 1].v)))
               [] op.s = "!=" ->
                    Ret(a, sc, not_equal(evaluated))
               [] op.s \in {"and", "or"} ->
                    Ret(a, sc, logic_loop(op.s, evaluated, 1, op.s = "and"))

---------------------------------------------------------------------------
(* Keyword forms *)

evaluate_def(a, sc) ==
    LET list == a.expr.l IN
    IF Len(list) # 3 THEN Ret(a, sc, Err(ArgumentCount("def", 3)))
    ELSE IF list[2].t # "Symbol"
    THEN Ret(a, sc, Err(IllegalArgument("def", "Variable name must be a symbol")))
    ELSE IF Len(a.acc) = 0 THEN Invoke(a, sc, Activation(list[3], a.env, 0))
    ELSE IF ~a.acc[1].ok THEN Ret(a, sc, a.acc[1])
    ELSE Ret(a, Scope_set(sc, a.env, list[2].s, a.acc[1].v), Ok(NoOp))

evaluate_lambda(expr, env) ==
    IF expr.t # "List" THEN Err(Internal)
    ELSE LET list == expr.l IN
    IF Len(list) # 3 THEN Err(ArgumentCount("lambda", 3))
    ELSE IF list[1] # Keyword("lambda") THEN Err(IllegalArgument("lambda", "Missing lambda"))
    ELSE IF list[2].t # "List"
    THEN Err(IllegalArgument("lambda", "Function arguments must be a list of symbols"))
    ELSE IF \E i \in 1..Len(list[2].l) : list[2].l[i].t # "Symbol"
    THEN Err(IllegalArgument("lambda", "Function arguments must be symbols"))
    ELSE IF list[3].t # "List"
    THEN Err(IllegalArgument("lambda", "Function body must be an evaluable list"))
    ELSE Ok(Lambda([i \in 1..Len(list[2].l) |-> list[2].l[i].s], list[3].l, env))

evaluate_defun(a, sc) ==
    LET list == a.expr.l IN
    IF Len(list) # 3 THEN Ret(a, sc, Err(ArgumentCount("defun", 3)))
    ELSE IF list[2].t # "Symbol"
    THEN Ret(a, sc, Err(IllegalArgument("defun", "Function name must be a symbol")))
    ELSE LET evaluated_lambda == evaluate_lambda(list[3], a.env) IN
         IF ~evaluated_lambda.ok THEN Ret(a, sc, evaluated_lambda)
         ELSE Ret(a, Scope_set(sc, a.env, list[2].s, evaluated_lambda.v), Ok(NoOp))

evaluate_print(a, sc) ==
    LET list == a.expr.l IN
    IF Len(list) # 2 THEN Ret(a, sc, Err(ArgumentCount("print", 1)))
    ELSE IF Len(a.acc) = 0 THEN Invoke(a, sc, Activation(list[2], a.env, 0))
    ELSE IF ~a.acc[1].ok THEN Ret(a, sc, a.acc[1])
    ELSE RetWrite(a, sc, a.acc[1].v)

---------------------------------------------------------------------------
(* evaluate_expr *)

\* an if that evaluates both branches and then picks one of the two values
evaluate_if_eager(a, sc) ==
    LET list == a.expr.l IN
    IF Len(list) # 4 THEN Ret(a, sc, Err(ArgumentCount("if", 4)))
    ELSE IF Len(a.acc) = 0 THEN Invoke(a, sc, Activation(list[2], a.env, a.depth + 1))
    ELSE IF ~a.acc[1].ok THEN Ret(a, sc, a.acc[1])
    ELSE IF a.acc[1].v.t # "Boolean"
    THEN Ret(a, sc, Err(IllegalArgument("if", "Condition must evaluate to bool")))
    ELSE IF Len(a.acc) < 3
    THEN Invoke(a, sc, Activation(list[Len(a.acc) + 2], a.env, a.depth + 1))
    ELSE Ret(a, sc, IF a.acc[1].v.b THEN a.acc[2] ELSE a.acc[3])

\* (if condition then else)
evaluate_if(a, sc) ==
    LET list == a.expr.l IN
    IF Len(list) # 4 THEN Ret(a, sc, Err(ArgumentCount("if", 4)))
    ELSE IF Len(a.acc) = 0 THEN Invoke(a, sc, Activation(list[2], a.env, a.depth + 1))
    ELSE IF Len(a.acc) = 2 THEN Ret(a, sc, a.acc[2])
    ELSE LET condition == a.acc[1] IN
         IF ~condition.ok THEN Ret(a, sc, condition)
         ELSE IF condition.v = Boolean(TRUE)
         THEN Invoke(a, sc, Activation(list[3], a.env, a.depth + 1))
         ELSE IF condition.v = Boolean(FALSE)
         THEN Invoke(a, sc, Activation(list[4], a.env, a.depth + 1))
         ELSE Ret(a, sc, Err(IllegalArgument("if", "Condition must evaluate to bool")))

\* dynamic scoping: the callee's frame extends the caller's environment
callee_parent_dynamic(a, function) == a.env

\* the frame a call of function, made from activation a, extends
callee_parent(a, function) == function.env

\* (s arg ...) once the closure has been fetched and its frame created:
\* the parameter loop, then the body
call_closure(a, sc) ==
    LET list == a.expr.l
        params == a.fn.params
        i == Len(a.acc)
    IN  IF i = Len(params) + 1 THEN Ret(a, sc, a.acc[i])
        ELSE IF i > 0 /\ ~a.acc[i].ok THEN Ret(a, sc, a.acc[i])
        ELSE LET sc1 == IF i > 0 THEN Scope_set(sc, a.ext, params[i], a.acc[i].v) ELSE sc IN
             IF i = Len(params)
             THEN Invoke(a, sc1, Activation(List(a.fn.body), a.ext, a.depth + 1))
             \* &list[i + 1] with nothing at that index
             ELSE IF i + 2 > Len(list) THEN Panic(a, sc1)
             ELSE Invoke(a, sc1, Activation(list[i + 2], a.env, a.depth + 1))

\* (s arg ...)
evaluate_call(a, sc) ==
    IF a.ext # 0 THEN call_closure(a, sc)
    ELSE LET s == a.expr.l[1].s
             function == Scope_get(sc, a.env, s)
         IN  IF function = None THEN Ret(a, sc, Err(UndefinedVariable(s)))
             ELSE IF function.t = "Lambda"
             THEN call_closure([a EXCEPT !.fn = function, !.ext = Len(sc) + 1],
                               Scope_extend(sc, callee_parent(a, function)))
             ELSE Ret(a, sc, Err(UndefinedFunction(s)))

\* a list whose head is neither an operator, if, a keyword nor a symbol
evaluate_list(a, sc) ==
    LET list == a.expr.l
        evaluated_list == a.acc
    IN  IF Len(evaluated_list) < Len(list)
        THEN Invoke(a, sc, evaluate(list[Len(evaluated_list) + 1], a.env))
        ELSE IF FirstErr(evaluated_list) # None THEN Ret(a, sc, FirstErr(evaluated_list))
        ELSE Ret(a, sc, Ok(List([i \in 1..Len(list) |-> evaluated_list[i].v])))

\* a Symbol bound to a closure is handed back like any other value
evaluate_symbol_first_class(a, sc) ==
    LET value == Scope_get(sc, a.env, a.expr.s) IN
    IF value = None THEN Ret(a, sc, Err(UndefinedVariable(a.expr.s)))
    ELSE Ret(a, sc, Ok(value))

\* the Expr::Symbol arm of evaluate_expr
evaluate_symbol(a, sc) ==
    LET value == Scope_get(sc, a.env, a.expr.s) IN
    IF value = None THEN Ret(a, sc, Err(UndefinedVariable(a.expr.s)))
    ELSE IF value.t = "Lambda" THEN Ret(a, sc, Err(Unimplemented))
    ELSE Ret(a, sc, Ok(value))

\* what the activation a does next, given the heap sc and the build setting oc
evaluate_expr(a, sc, oc) ==
    IF a.depth > MAX_RECURSION_DEPTH
    THEN Ret(a, sc, Err(MaximumRecursionDepthReached(MAX_RECURSION_DEPTH)))
    ELSE LET expr == a.expr IN
         CASE expr.t = "List" ->
                IF Len(expr.l) = 0 THEN Ret(a, sc, Ok(List(<<>>)))
                ELSE LET head_op == expr.l[1] IN
                     CASE head_op.t = "Op" -> evaluate_binary_op(a, sc, oc)
                       [] head_op.t = "If" -> evaluate_if(a, sc)
                       [] head_op.t = "Keyword" ->
                            CASE head_op.s = "def" -> evaluate_def(a, sc)
                              [] head_op.s = "defun" -> evaluate_defun(a, sc)
                              [] head_op.s = "print" -> evaluate_print(a, sc)
                              [] OTHER -> Ret(a, sc, Err(Unimplemented))
                       [] head_op.t = "Symbol" -> evaluate_call(a, sc)
                       [] OTHER -> evaluate_list(a, sc)
           [] expr.t = "Integer" -> Ret(a, sc, Ok(expr))
           [] expr.t = "Boolean" -> Ret(a, sc, Ok(expr))
           [] expr.t = "Symbol" -> evaluate_symbol(a, sc)
           [] expr.t = "Lambda" -> Ret(a, sc, Ok(NoOp))
           [] OTHER -> Ret(a, sc, Err(Unimplemented))

---------------------------------------------------------------------------
(* The machine *)

Top == stack[Len(stack)]

\* what the topmost activation does next
Step == evaluate_expr(Top, scopes, overflow_checks)

Init ==
    /\ scopes = <<Scope_new>>
    /\ stack = <<>>
    /\ out = <<>>
    /\ status = "idle"
    /\ result = Ok(NoOp)
    /\ history = <<>>
    /\ overflow_checks \in BOOLEAN

\* the driver hands the parsed expression e to evaluate, with its root environment;
\* it does so at most limit times
Evaluate(e, limit) ==
    /\ status = "idle"
    /\ Len(history) < limit
    /\ history' = Append(history, e)
    /\ stack' = <<evaluate(e, 1)>>
    /\ status' = "running"
    /\ UNCHANGED <<scopes, out, result, overflow_checks>>

\* the topmost activation starts a nested evaluation
Call ==
    /\ status = "running"
    /\ Step.k = "call"
    /\ Len(stack) < HostStackMax
    /\ stack' = Append([stack EXCEPT ![Len(stack)] = Step.act], Step.child)
    /\ scopes' = Step.scopes
    /\ UNCHANGED <<out, status, result, history, overflow_checks>>

\* the topmost activation returns, to the activation below it or to the driver
Return ==
    /\ status = "running"
    /\ Step.k = "ret"
    /\ scopes' = Step.scopes
    /\ out' = out \o Step.written
    /\ IF Len(stack) = 1
       THEN /\ stack' = <<>>
            /\ status' = "idle"
            /\ result' = Step.res
       ELSE /\ stack' = [SubSeq(stack, 1, Len(stack) - 1)
                            EXCEPT ![Len(stack) - 1].acc = Append(@, Step.res)]
            /\ UNCHANGED <<status, result>>
    /\ UNCHANGED <<history, overflow_checks>>

\* the process dies: a panic, or a nested evaluation the host stack has no room for
Abort ==
    /\ status = "running"
    /\ Step.k \in (IF Len(stack) < HostStackMax THEN {"panic"} ELSE {"panic", "call"})
    /\ status' = "crashed"
    /\ UNCHANGED <<scopes, stack, out, result, history, overflow_checks>>

---------------------------------------------------------------------------
(* Inputs: expression trees as the parser builds them *)

Def(name, e) == List(<<Keyword("def"), Symbol(name), e>>)
Defun(name, params, body) ==
    List(<<Keyword("defun"), Symbol(name),
           List(<<Keyword("lambda"), List([i \in 1..Len(params) |-> Symbol(params[i])]), body>>)>>)
App(name, args) == List(<<Symbol(name)>> \o args)
Bin(op, args) == List(<<Op(op)>> \o args)
IfExpr(c, x, y) == List(<<If, c, x, y>>)
PrintExpr(e) == List(<<Keyword("print"), e>>)

---------------------------------------------------------------------------
(* Spec: closures and scoping, a driver that keeps one root environment *)

def_x_1 == Def("x", Integer(1))
def_x_2 == Def("x", Integer(2))
defun_f_x == Defun("f", <<>>, Symbol("x"))
defun_f == Defun("f", <<>>, Bin("+", <<Symbol("x"), Integer(0)>>))
call_f == App("f", <<>>)
defun_g == Defun("g", <<"y">>, Bin("+", <<Symbol("x"), Symbol("y")>>))
defun_h == Defun("h", <<"x">>, App("g", <<Symbol("x")>>))
call_h_5 == App("h", <<Integer(5)>>)
call_h == App("h", <<>>)
call_h_5_6 == App("h", <<Integer(5), Integer(6)>>)

ClosureLines ==
    {def_x_1, def_x_2, defun_f_x, defun_f, call_f, defun_g, defun_h, call_h_5, call_h, call_h_5_6}

Next == (\E e \in ClosureLines : Evaluate(e, MaxLines)) \/ Call \/ Return \/ Abort

Spec == Init /\ [][Next]_vars

\* the driver is back in control after evaluating exactly the lines h
Finished(h) == status = "idle" /\ history = h

\* activation a is a closure call that has fetched its closure and created its frame
InCall(a) == a.ext # 0

\* C1: a closure call evaluates its arguments in the caller's environment and its
\* body in a fresh frame whose parent is the environment the closure captured, so
\* a free variable of the body never resolves to a binding of the caller's frame:
\* with x = 1 at the root, g = (lambda (y) (+ x y)) and h = (lambda (x) (g x)),
\* (h 5) is 1 + 5.
C1_LexicalScoping ==
    /\ \A i \in 1..Len(stack) :
          InCall(stack[i]) =>
             /\ scopes[stack[i].ext].parent = stack[i].fn.env
             /\ \A j \in 1..i : stack[j].env # stack[i].ext
             /\ \A j \in 1..(i - 1) : stack[j].ext # stack[i].ext
             /\ i < Len(stack) =>
                   IF Len(stack[i].acc) < Len(stack[i].fn.params)
                   THEN /\ stack[i + 1].env = stack[i].env
                        /\ stack[i + 1].expr = stack[i].expr.l[Len(stack[i].acc) + 2]
                   ELSE /\ stack[i + 1].env = stack[i].ext
                        /\ stack[i + 1].expr = List(stack[i].fn.body)
    /\ Finished(<<def_x_1, defun_g, defun_h, call_h_5>>) => result = Ok(Integer(6))

C1_Witness ==
    /\ Finished(<<def_x_1, defun_g, defun_h, call_h_5>>)
    /\ result = Ok(Integer(6))

\* C2 (as stated): after (def x 1), (defun f (lambda () x)), (def x 2), the call
\* (f) returns 2.
C2_Original ==
    Finished(<<def_x_1, defun_f_x, def_x_2, call_f>>) => result = Ok(Integer(2))

\* C2 (amended): with the body written as a list, (defun f (lambda () (+ x 0))),
\* the call (f) made after (def x 1), the defun and (def x 2) returns 2: the closure
\* holds the handle of the frame it was defined in and sees the frame as it is at
\* the call.
C2_ClosureSeesFrameAtCall ==
    /\ Finished(<<def_x_1, defun_f, def_x_2, call_f>>) => result = Ok(Integer(2))
    /\ Finished(<<def_x_1, defun_f_x>>) =>
          result = Err(IllegalArgument("lambda", "Function body must be an evaluable list"))

C2_Witness ==
    /\ Finished(<<def_x_1, defun_f, def_x_2, call_f>>)
    /\ result = Ok(Integer(2))

\* the closure the list a.expr calls takes another number of arguments than supplied
CallMismatch(a) ==
    /\ a.expr.t = "List"
    /\ Len(a.expr.l) > 0
    /\ a.expr.l[1].t = "Symbol"
    /\ LET function == IF InCall(a) THEN a.fn ELSE Scope_get(scopes, a.env, a.expr.l[1].s)
       IN  /\ function.t = "Lambda"
           /\ Len(function.params) # Len(a.expr.l) - 1

\* C5: a closure call with fewer or more arguments than parameters returns an
\* argument-count error: it does not crash, its body is not evaluated and it
\* returns no value.
C5_ArgCountMismatchIsError ==
    /\ status = "crashed" => ~CallMismatch(Top)
    /\ \A i \in 1..(Len(stack) - 1) :
          CallMismatch(stack[i]) => stack[i + 1].expr # List(stack[i].fn.body)
    /\ (status = "running" /\ CallMismatch(Top) /\ Step.k = "ret") =>
          (~Step.res.ok /\ Step.res.v.t = "ArgumentCount")

---------------------------------------------------------------------------
(* SpecDef: def at the root and inside closure bodies *)

def_x_10 == Def("x", Integer(10))
plus_x_5 == Bin("+", <<Symbol("x"), Integer(5)>>)
defun_d == Defun("d", <<"v">>, Def("x", Symbol("v")))
call_d_9 == App("d", <<Integer(9)>>)
call_d == App("d", <<>>)
defun_c ==
    Defun("c", <<"x">>,
          List(<<App("d", <<Bin("+", <<Symbol("x"), Integer(1)>>)>>), Symbol("x")>>))
call_c_7 == App("c", <<Integer(7)>>)

DefLines == {def_x_10, plus_x_5, defun_d, call_d_9, call_d, defun_c, call_c_7}

NextDef == (\E e \in DefLines : Evaluate(e, MaxLines)) \/ Call \/ Return \/ Abort

SpecDef == Init /\ [][NextDef]_vars

\* the topmost activation is a def whose value has been evaluated: it binds next
DefBinds ==
    /\ status = "running"
    /\ Top.expr.t = "List"
    /\ Len(Top.expr.l) = 3
    /\ Top.expr.l[1] = Keyword("def")
    /\ Top.expr.l[2].t = "Symbol"
    /\ Len(Top.acc) = 1
    /\ Top.acc[1].ok

\* the step a binding def takes changes its own frame at the name and nothing else
DefStep ==
    DefBinds =>
        LET E == Top.env
            name == Top.expr.l[2].s
        IN  /\ Len(scopes') = Len(scopes)
            /\ \A h \in 1..Len(scopes) : h # E => scopes'[h] = scopes[h]
            /\ scopes'[E].parent = scopes[E].parent
            /\ DOMAIN scopes'[E].entities = DOMAIN scopes[E].entities \cup {name}
            /\ \A k \in DOMAIN scopes[E].entities :
                  k # name => scopes'[E].entities[k] = scopes[E].entities[k]
            /\ scopes'[E].entities[name] = Top.acc[1].v

DefScenarios ==
    /\ Finished(<<def_x_10, plus_x_5>>) => result = Ok(Integer(15))
    /\ Finished(<<def_x_10, defun_d, call_d_9, plus_x_5>>) => result = Ok(Integer(15))
    /\ Finished(<<def_x_10, defun_d, defun_c, call_c_7>>) =>
          result = Ok(List(<<NoOp, Integer(7)>>))

\* C7: (def name e) binds name in the frame of its own environment only and leaves
\* every other frame, its ancestors included, as it was; the binding is visible to
\* later evaluations in that environment ((def x 10) then (+ x 5) gives 15), and a
\* def inside a closure body changes neither the captured nor the caller's frame.
C7_DefBindsOwnFrameOnly == [][DefStep]_vars /\ []DefScenarios

\* a def inside the body of d has bound x in d's frame while the root keeps x = 10
C7_Witness ==
    /\ Finished(<<def_x_10, defun_d, call_d_9, plus_x_5>>)
    /\ result = Ok(Integer(15))
    /\ scopes[1].entities["x"] = Integer(10)
    /\ \E h \in 2..Len(scopes) : /\ "x" \in DOMAIN scopes[h].entities
                                 /\ scopes[h].entities["x"] = Integer(9)

---------------------------------------------------------------------------
(* SpecCtl: if, plain lists and operators whose elements have side effects *)

branch_a == Def("a", PrintExpr(Integer(1)))
branch_b == Def("b", PrintExpr(Integer(2)))
if_true == IfExpr(Boolean(TRUE), branch_a, branch_b)
if_false == IfExpr(Boolean(FALSE), branch_a, branch_b)
if_unbound == IfExpr(Symbol("u"), branch_a, branch_b)
if_int == IfExpr(Integer(3), branch_a, branch_b)
list_err == List(<<PrintExpr(Integer(1)), Symbol("u"), PrintExpr(Integer(2))>>)
op_err == Bin("+", <<Symbol("u"), PrintExpr(Integer(2))>>)
div_1_0 == Bin("/", <<Integer(1), Integer(0)>>)

CtlLines == {if_true, if_false, if_unbound, if_int, list_err, op_err, div_1_0}

NextCtl == (\E e \in CtlLines : Evaluate(e, MaxCtlLines)) \/ Call \/ Return \/ Abort

SpecCtl == Init /\ [][NextCtl]_vars

IsIf(a) == a.expr.t = "List" /\ Len(a.expr.l) = 4 /\ a.expr.l[1] = If

Bound(name) == name \in DOMAIN scopes[1].entities

\* C6: (if c X Y) evaluates c first and then exactly one of X and Y, the one c
\* selects; the other branch is never evaluated and none of its side effects
\* occur; when c fails or is not a Boolean neither branch is evaluated.
C6_IfEvaluatesOneBranch ==
    /\ \A i \in 1..Len(stack) :
          IsIf(stack[i]) =>
             LET a == stack[i] IN
             /\ Len(a.acc) <= 2
             /\ Len(a.acc) = 2 => a.acc[1].ok /\ a.acc[1].v.t = "Boolean"
             /\ i < Len(stack) =>
                   /\ stack[i + 1].env = a.env
                   /\ IF Len(a.acc) = 0
                      THEN stack[i + 1].expr = a.expr.l[2]
                      ELSE /\ Len(a.acc) = 1
                           /\ a.acc[1].ok
                           /\ a.acc[1].v.t = "Boolean"
                           /\ stack[i + 1].expr = a.expr.l[IF a.acc[1].v.b THEN 3 ELSE 4]
    /\ Finished(<<if_true>>) => out = <<Integer(1)>> /\ Bound("a") /\ ~Bound("b")
    /\ Finished(<<if_false>>) => out = <<Integer(2)>> /\ Bound("b") /\ ~Bound("a")
    /\ Finished(<<if_unbound>>) =>
          /\ out = <<>> /\ ~Bound("a") /\ ~Bound("b")
          /\ result = Err(UndefinedVariable("u"))
    /\ Finished(<<if_int>>) =>
          /\ out = <<>> /\ ~Bound("a") /\ ~Bound("b")
          /\ result = Err(IllegalArgument("if", "Condition must evaluate to bool"))

C6_Witness ==
    /\ Finished(<<if_true>>)
    /\ out = <<Integer(1)>>
    /\ Bound("a")
    /\ ~Bound("b")

\* a is a list whose elements, or an operator whose arguments, are evaluated in turn
IsElementwise(a) ==
    /\ a.expr.t = "List"
    /\ Len(a.expr.l) > 0
    /\ a.expr.l[1].t \notin {"If", "Keyword", "Symbol"}
    /\ a.expr.l[1] # Op("not")

\* C8: when element i of a plain list, or argument i of an operator, is the first
\* to fail, evaluation stops there: no later element is evaluated, none of its
\* bindings or output occur, and the result is the error of element i.
C8_FirstErrorStops ==
    /\ \A i \in 1..Len(stack) :
          IsElementwise(stack[i]) =>
             \A j \in 1..Len(stack[i].acc) :
                ~stack[i].acc[j].ok => (j = Len(stack[i].acc) /\ i = Len(stack))
    /\ (status = "running" /\ IsElementwise(Top) /\ Step.k = "ret"
            /\ FirstErr(Top.acc) # None) => Step.res = FirstErr(Top.acc)
    /\ Finished(<<op_err>>) => out = <<>> /\ result = Err(UndefinedVariable("u"))
    /\ Finished(<<list_err>>) => out = <<Integer(1)>> /\ result = Err(UndefinedVariable("u"))

---------------------------------------------------------------------------
(* SpecArith: + - * / over integer literals *)

ArithOps == {"+", "-", "*", "/"}

\* operands at the ends of the range and in its middle
Operands == {INT_MIN, -7, -1, 0, 2, INT_MAX}
SmallOperands == {-7, 2, 100}

Ints(vals) == [i \in 1..Len(vals) |-> Integer(vals[i])]

ArithArgs ==
    {<<>>}
    \cup {Ints(<<x>>) : x \in Operands}
    \cup {Ints(<<x, y>>) : x \in Operands, y \in Operands}
    \cup {Ints(<<x, y, z>>) : x \in SmallOperands, y \in SmallOperands, z \in SmallOperands}
    \cup {Ints(<<10, 2, 3>>), Ints(<<100, 10, 2>>), Ints(<<12, 6, 2>>), Ints(<<0, 3, 4, 6>>)}
    \cup {<<Boolean(TRUE)>>, <<Integer(2), Boolean(TRUE)>>, <<Boolean(TRUE), Integer(2)>>,
          <<Integer(INT_MAX), Integer(INT_MAX), Boolean(TRUE)>>,
          <<Integer(1), Bin("-", Ints(<<2, 2>>))>>}

ArithLines == {Bin(op, args) : op \in ArithOps, args \in ArithArgs}

NextArith == (\E e \in ArithLines : Evaluate(e, MaxArithLines)) \/ Call \/ Return \/ Abort

SpecArith == Init /\ [][NextArith]_vars

\* the driver has handed over one arithmetic expression; its operator and arguments
ArithRun == Len(history) = 1 /\ history[1] \in ArithLines
RunOp == history[1].l[1].s
RunArgs == SubSeq(history[1].l, 2, Len(history[1].l))

AllIntegers(args) == \A i \in 1..Len(args) : args[i].t = "Integer"

\* a1 op a2 op ... op an over the mathematical integers, folded from the left
RECURSIVE MathFold(_, _, _)
MathFold(op, args, n) ==
    IF n = 1
    THEN IF op \in {"-", "/"} THEN args[1].n
         ELSE IF op = "+" THEN 0 + args[1].n ELSE 1 * args[1].n
    ELSE LET r == MathFold(op, args, n - 1) IN
         CASE op = "+" -> r + args[n].n
           [] op = "-" -> r - args[n].n
           [] op = "*" -> r * args[n].n
           [] op = "/" -> TruncDiv(r, args[n].n)

ZeroDivisor(op, args) == op = "/" /\ \E i \in 2..Len(args) : args[i] = Integer(0)

\* no intermediate result of the fold leaves the integer range
RECURSIVE PartialsInRange(_, _, _)
PartialsInRange(op, args, n) ==
    IF n = 0 THEN TRUE
    ELSE PartialsInRange(op, args, n - 1) /\ InRange(MathFold(op, args, n))

\* the folds are exact as long as every intermediate result is in range
ArithFoldsInRange ==
    (ArithRun /\ AllIntegers(RunArgs) /\ Len(RunArgs) > 0 /\ ~ZeroDivisor(RunOp, RunArgs)
        /\ PartialsInRange(RunOp, RunArgs, Len(RunArgs))) =>
        /\ status # "crashed"
        /\ status = "idle" => result = Ok(Integer(MathFold(RunOp, RunArgs, Len(RunArgs))))

\* C4: a division whose second or a later argument evaluates to 0 returns an
\* evaluation error to the caller; the evaluator does not crash on it.
C4_DivisionByZeroIsError ==
    (ArithRun /\ RunOp = "/" /\ Len(RunArgs) >= 2
        /\ \E i \in 2..Len(RunArgs) : RunArgs[i] \in {Integer(0), Bin("-", Ints(<<2, 2>>))}) =>
        /\ status # "crashed"
        /\ status = "idle" => ~result.ok

\* C9: over arguments that evaluate to integers, + returns the sum, * the product,
\* - and / the left fold from the first argument (truncating, divisors non-zero);
\* no argument gives an argument-count error, and any non-Integer argument an
\* illegal-argument error.
C9_ArithmeticFolds ==
    (ArithRun /\ ~ZeroDivisor(RunOp, RunArgs)
        /\ \A i \in 1..Len(RunArgs) : RunArgs[i].t \in {"Integer", "Boolean"}) =>
        /\ status # "crashed"
        /\ status = "idle" =>
              result = IF Len(RunArgs) = 0 THEN Err(ArgumentCount(RunOp, 2))
                       ELSE IF ~AllIntegers(RunArgs)
                       THEN Err(IllegalArgument(RunOp, "All arguments must be numbers"))
                       ELSE Ok(Integer(MathFold(RunOp, RunArgs, Len(RunArgs))))

\* C10: for every pair of integers a and b, (+ a b), (- a b), (* a b) and, for
\* b # 0, (/ a b) return the Integer holding the exact result, also when that
\* result lies outside the integer range; no pair crashes the evaluator.
C10_ExactOnAllPairs ==
    (ArithRun /\ Len(RunArgs) = 2 /\ AllIntegers(RunArgs) /\ ~ZeroDivisor(RunOp, RunArgs)) =>
        /\ status # "crashed"
        /\ status = "idle" =>
              /\ result = Ok(Integer(MathFold(RunOp, RunArgs, 2)))
              /\ InRange(result.v.n)

---------------------------------------------------------------------------
(* SpecRec: closures that call themselves and have no base case *)

rec_direct == Defun("f", <<>>, App("f", <<>>))
rec_if == Defun("f", <<>>, IfExpr(Boolean(TRUE), App("f", <<>>), Integer(0)))
rec_op == Defun("f", <<>>, Bin("+", <<Integer(1), App("f", <<>>)>>))
rec_def == Defun("f", <<>>, Def("y", App("f", <<>>)))
rec_print == Defun("f", <<>>, PrintExpr(App("f", <<>>)))

RecDefuns == {rec_direct, rec_if, rec_op, rec_def, rec_print}

NextRec ==
    (\E e \in RecDefuns \cup {call_f} : Evaluate(e, MaxRecLines)) \/ Call \/ Return \/ Abort

SpecRec == Init /\ [][NextRec]_vars

\* the driver has defined a recursive closure f and then called it
RecRun == Len(history) = 2 /\ history[1] \in RecDefuns /\ history[2] = call_f

\* number of calls of a closure in progress
CallsInProgress == Cardinality({i \in 1..Len(stack) : InCall(stack[i])})

\* C3: calling a closure that calls itself without a base case ends with the
\* recursion-limit error, wherever the recursive call stands in the body; the host
\* stack does not overflow, and the error is raised when MAX_RECURSION_DEPTH calls
\* are nested in the first one.
C3_RecursionEndsWithLimitError ==
    RecRun =>
        /\ status # "crashed"
        /\ status = "idle" =>
              result = Err(MaximumRecursionDepthReached(MAX_RECURSION_DEPTH))
        /\ (status = "running" /\ Top.depth > MAX_RECURSION_DEPTH) =>
              CallsInProgress = MAX_RECURSION_DEPTH + 1


---------------------------------------------------------------------------
(* SpecCmp: < <= > >= and != over evaluated arguments *)

MaxCmpLines == 1

CmpOps == {"<", "<=", ">", ">="}
CmpOperands == {INT_MIN, 0, 2, INT_MAX}
CmpSmallOperands == {0, 2}

plus_3_3 == Bin("+", Ints(<<3, 3>>))
plus_1_2 == Bin("+", Ints(<<1, 2>>))
def_z_1 == Def("z", Integer(1))

\* arguments that all evaluate to Integer
CmpIntegerArgs ==
    {Ints(<<x>>) : x \in CmpOperands}
    \cup {Ints(<<x, y>>) : x \in CmpOperands, y \in CmpOperands}
    \cup {Ints(<<x, y, z>>) : x \in CmpSmallOperands, y \in CmpSmallOperands,
                              z \in CmpSmallOperands}
    \cup {Ints(<<1, 2, 3>>), Ints(<<2, 5, 3>>), Ints(<<8, 6, 8, 2>>),
          <<Integer(8), Integer(6), plus_3_3, Integer(2)>>}

\* arguments one of which evaluates to a Boolean, to NoOp or to a list
CmpOtherArgs ==
    {<<Boolean(TRUE)>>, <<List(<<>>)>>, <<def_z_1>>,
     <<Integer(1), Boolean(TRUE)>>, <<Boolean(FALSE), Integer(1)>>,
     <<Integer(0), Integer(2), Boolean(TRUE)>>, <<Integer(2), Integer(0), Boolean(TRUE)>>,
     <<Integer(2), def_z_1, Integer(0)>>, <<Boolean(TRUE), Boolean(TRUE)>>}

CmpArgs == CmpIntegerArgs \cup CmpOtherArgs

NeArgs ==
    {Ints(<<x>>) : x \in 1..2}
    \cup {Ints(<<x, y>>) : x \in 1..2, y \in 1..2}
    \cup {Ints(<<x, y, z>>) : x \in 1..2, y \in 1..2, z \in 1..2}
    \cup {<<Integer(2), plus_1_2>>, <<Integer(3), plus_1_2>>, <<Integer(1), Boolean(TRUE)>>,
          <<Boolean(TRUE), Boolean(TRUE)>>, <<Boolean(TRUE), Boolean(FALSE), Boolean(TRUE)>>}

ne_empty == Bin("!=", <<>>)
lt_div == Bin("<", <<Integer(1), div_1_0>>)

CmpLines ==
    {Bin(op, args) : op \in CmpOps, args \in CmpArgs}
    \cup {Bin("!=", args) : args \in NeArgs}
    \cup {ne_empty, lt_div}

NextCmp == (\E e \in CmpLines : Evaluate(e, MaxCmpLines)) \/ Call \/ Return \/ Abort

SpecCmp == Init /\ [][NextCmp]_vars

\* the value an argument of CmpArgs or NeArgs stands for
Denotes(e) ==
    CASE e = plus_3_3 -> Integer(6)
      [] e = plus_1_2 -> Integer(3)
      [] e = def_z_1 -> NoOp
      [] OTHER -> e

Denoted(args) == [i \in 1..Len(args) |-> Denotes(args[i])]

\* the ordering an operator name stands for
Ordered(op, x, y) ==
    \/ op = "<" /\ x < y
    \/ op = "<=" /\ x <= y
    \/ op = ">" /\ x > y
    \/ op = ">=" /\ x >= y

\* C11: for each of <, <=, >, >= and every sequence of one or more arguments that
\* all evaluate to Integer, the result is Boolean true exactly when the operator's
\* ordering holds for every adjacent pair (true for a single argument), Boolean
\* false otherwise; when an argument evaluates to something that is not an Integer
\* the result is an illegal-argument error, whatever the other arguments are.
C11_ComparisonChains ==
    \A op \in CmpOps, args \in CmpArgs :
        Finished(<<Bin(op, args)>>) =>
            LET vals == Denoted(args) IN
            IF \A i \in 1..Len(vals) : vals[i].t = "Integer"
            THEN result = Ok(Boolean(\A i \in 1..(Len(vals) - 1) :
                                         Ordered(op, vals[i].n, vals[i + 1].n)))
            ELSE ~result.ok /\ result.v.t = "IllegalArgument"

C11_Witness ==
    /\ Finished(<<Bin("<", Ints(<<0, 2, 0>>))>>)
    /\ result = Ok(Boolean(FALSE))

lt_1_2_3 == Bin("<", Ints(<<1, 2, 3>>))
lt_2_5_3 == Bin("<", Ints(<<2, 5, 3>>))
ge_8_6_8_2 == Bin(">=", Ints(<<8, 6, 8, 2>>))
ge_8_6_sum_2 == Bin(">=", <<Integer(8), Integer(6), plus_3_3, Integer(2)>>)

\* C12 as stated: (< 1 2 3) returns true, (< 2 5 3) returns false and
\* (>= 8 6 8 2) returns true.
C12_Original ==
    /\ Finished(<<lt_1_2_3>>) => result = Ok(Boolean(TRUE))
    /\ Finished(<<lt_2_5_3>>) => result = Ok(Boolean(FALSE))
    /\ Finished(<<ge_8_6_8_2>>) => result = Ok(Boolean(TRUE))

\* C12: (< 1 2 3) returns true and (< 2 5 3) returns false; (>= 8 6 8 2) returns
\* false, because 6 >= 8 fails, and (>= 8 6 (+ 3 3) 2) returns true.
C12_ComparisonExamples ==
    /\ Finished(<<lt_1_2_3>>) => result = Ok(Boolean(TRUE))
    /\ Finished(<<lt_2_5_3>>) => result = Ok(Boolean(FALSE))
    /\ Finished(<<ge_8_6_8_2>>) => result = Ok(Boolean(FALSE))
    /\ Finished(<<ge_8_6_sum_2>>) => result = Ok(Boolean(TRUE))

C12_Witness ==
    /\ Finished(<<ge_8_6_sum_2>>)
    /\ result = Ok(Boolean(TRUE))

\* (!= a1 ... an), n >= 1: true unless every evaluated argument equals the first
NotEqualChains ==
    \A args \in NeArgs :
        Finished(<<Bin("!=", args)>>) =>
            LET vals == Denoted(args) IN
            result = Ok(Boolean(\E i \in 1..Len(vals) : vals[i] # vals[1]))

---------------------------------------------------------------------------
(* SpecNames: names that are unbound or bound to the wrong kind of value,
   "not", and the values evaluation hands back *)

MaxNameLines == 2

\* calls whose arguments would write a line and bind w
call_u == App("u", <<PrintExpr(Integer(1)), Def("w", Integer(2))>>)
call_x == App("x", <<PrintExpr(Integer(1)), Def("w", Integer(2))>>)
print_u == PrintExpr(Symbol("u"))
list_u == List(<<Integer(1), Symbol("u")>>)

UnboundLines == {def_x_1, call_u, call_x, print_u, list_u}

defun_f_2 == Defun("f", <<>>, Bin("+", Ints(<<1, 1>>)))
defun_pair == Defun("pair", <<"a">>, List(<<Integer(0), Symbol("a")>>))
def_y_f == Def("y", Symbol("f"))
list_f == List(<<Integer(1), Symbol("f")>>)
call_pair_f == App("pair", <<Symbol("f")>>)
call_pair_pair_1 == App("pair", <<App("pair", <<Integer(1)>>)>>)
def_y_list == Def("y", List(<<Integer(1), List(<<Boolean(TRUE)>>)>>))
list_op == List(<<Integer(1), Op("+")>>)
list_if == List(<<Integer(1), If>>)
list_keyword == List(<<Integer(1), Keyword("def")>>)
\* an Expr no parser builds, which evaluate accepts all the same
lambda_literal == Lambda(<<>>, <<>>, 1)

ValueLines ==
    {defun_f_2, defun_pair, def_y_f, list_f, call_f, call_pair_f, call_pair_pair_1,
     def_y_list,
     list_op, list_if, list_keyword, lambda_literal}

def_b_true == Def("b", Boolean(TRUE))
not_none == Bin("not", <<>>)
not_two == Bin("not", <<Boolean(TRUE), Boolean(FALSE)>>)

\* what stands after "not": literals, a bound symbol, expressions with an effect
NotOperands ==
    {Boolean(TRUE), Boolean(FALSE), Integer(1), Symbol("b"), PrintExpr(Boolean(TRUE)),
     Def("q", Boolean(TRUE)), Bin("and", <<Boolean(TRUE)>>)}

NotLines == {Bin("not", <<e>>) : e \in NotOperands} \cup {def_b_true, not_none, not_two}

NameLines == UnboundLines \cup ValueLines \cup NotLines \cup {div_1_0}

NextNames == (\E e \in NameLines : Evaluate(e, MaxNameLines)) \/ Call \/ Return \/ Abort

SpecNames == Init /\ [][NextNames]_vars

\* C14: evaluating a list whose head is a Symbol that is unbound, or bound to
\* anything other than a closure, returns the undefined-function error, while a
\* bare unbound Symbol returns the undefined-variable error; in each case no
\* argument is evaluated and no binding is created in any frame.
C14_UndefinedNames ==
    \A h \in {<<>>, <<def_x_1>>} :
        /\ \A c \in {call_u, call_x} :
              Finished(h \o <<c>>) =>
                 /\ result = Err(UndefinedFunction(c.l[1].s))
                 /\ out = <<>>
                 /\ Len(scopes) = 1
                 /\ ~Bound("w")
        /\ \A c \in {print_u, list_u} :
              Finished(h \o <<c>>) =>
                 /\ result = Err(UndefinedVariable("u"))
                 /\ out = <<>>
                 /\ Len(scopes) = 1


NotHistories == {<<>>, <<def_b_true>>}

\* C16: (not e) with exactly one argument uses e as it is written, without
\* evaluating it: it returns Boolean(!b) only when e is literally the Boolean b,
\* no side effect of e occurs, and any other e, such as a symbol bound to a Boolean
\* or an expression that would evaluate to a Boolean, yields an illegal-argument
\* error; with any other number of arguments it returns an argument-count error.
C16_NotUsesLiteral ==
    \A h \in NotHistories :
        /\ \A e \in NotOperands :
              Finished(h \o <<Bin("not", <<e>>)>>) =>
                 /\ IF e.t = "Boolean" THEN result = Ok(Boolean(~e.b))
                    ELSE ~result.ok /\ result.v.t = "IllegalArgument"
                 /\ out = <<>>
                 /\ ~Bound("q")
        /\ \A c \in {not_none, not_two} :
              Finished(h \o <<c>>) => ~result.ok /\ result.v.t = "ArgumentCount"

C16_Witness ==
    /\ Finished(<<def_b_true, Bin("not", <<Symbol("b")>>)>>)
    /\ scopes[1].entities["b"] = Boolean(TRUE)
    /\ ~result.ok
    /\ result.v.t = "IllegalArgument"

RECURSIVE PlainValue(_)
\* an Integer, a Boolean, NoOp, or a list of these
PlainValue(v) ==
    \/ v.t \in {"Integer", "Boolean", "NoOp"}
    \/ v.t = "List" /\ \A i \in 1..Len(v.l) : PlainValue(v.l[i])

\* the closure v bound to key is the one some defun line of the session describes
CreatedByDefun(key, v) ==
    \E i \in 1..Len(history) :
        LET e == history[i] IN
        /\ e.t = "List"
        /\ Len(e.l) = 3
        /\ e.l[1] = Keyword("defun")
        /\ e.l[2] = Symbol(key)
        /\ e.l[3].t = "List"
        /\ Len(e.l[3].l) = 3
        /\ v.params = [j \in 1..Len(e.l[3].l[2].l) |-> e.l[3].l[2].l[j].s]
        /\ v.body = e.l[3].l[3].l

LastLine == history[Len(history)]

\* C18: whatever was evaluated before, a successful evaluation, nested or not,
\* returns an Integer, a Boolean, NoOp or a list of these, never a closure or a
\* syntax marker: a bare Symbol bound to a closure gives the unimplemented error
\* and a closure literal gives NoOp; so every binding that holds a closure was
\* created by defun, and every other binding holds an Integer, a Boolean, NoOp or
\* a list of these.
C18_ValuesArePlain ==
    /\ (status = "idle" /\ result.ok) => PlainValue(result.v)
    /\ \A i \in 1..Len(stack) : \A j \in 1..Len(stack[i].acc) :
            stack[i].acc[j].ok => PlainValue(stack[i].acc[j].v)
    /\ \A h \in 1..Len(scopes) : \A key \in DOMAIN scopes[h].entities :
            LET v == scopes[h].entities[key] IN
            IF v.t = "Lambda" THEN CreatedByDefun(key, v) ELSE PlainValue(v)
    /\ (status = "idle" /\ history # <<>> /\ Bound("f") /\ LastLine \in {def_y_f, list_f})
            => result = Err(Unimplemented)
    /\ (status = "idle" /\ history # <<>> /\ LastLine = lambda_literal)
            => result = Ok(NoOp)

C18_Witness ==
    /\ Finished(<<defun_f_2, def_y_f>>)
    /\ scopes[1].entities["f"].t = "Lambda"
    /\ ~Bound("y")
    /\ result = Err(Unimplemented)


---------------------------------------------------------------------------
(* SpecErr: one line that a built-in form rejects *)

MaxErrLines == 1

lambda_of(params, body) == List(<<Keyword("lambda"), params, body>>)
body_1_1 == Bin("+", Ints(<<1, 1>>))

\* a line a construct rejects for the kind of an argument, and the construct
Rejected(line, name) == [line |-> line, name |-> name]

IllegalLines ==
    {Rejected(Bin(op, <<Boolean(TRUE)>>), op) : op \in ArithOps \cup CmpOps}
    \cup {Rejected(Bin(op, <<Integer(1)>>), op) : op \in {"and", "or", "not"}}
    \cup {Rejected(Bin(op, <<Boolean(TRUE), Integer(1)>>), op) : op \in {"and", "or"}}
    \cup {Rejected(IfExpr(Integer(1), Integer(2), Integer(3)), "if"),
          Rejected(List(<<Keyword("def"), Integer(1), Integer(2)>>), "def"),
          Rejected(List(<<Keyword("defun"), Integer(1), lambda_of(List(<<>>), body_1_1)>>),
                   "defun"),
          Rejected(List(<<Keyword("defun"), Symbol("f"),
                          List(<<Integer(1), List(<<>>), body_1_1>>)>>), "lambda"),
          Rejected(List(<<Keyword("defun"), Symbol("f"), lambda_of(Integer(1), body_1_1)>>),
                   "lambda"),
          Rejected(List(<<Keyword("defun"), Symbol("f"),
                          lambda_of(List(<<Integer(1)>>), body_1_1)>>), "lambda"),
          Rejected(List(<<Keyword("defun"), Symbol("f"), lambda_of(List(<<>>), Integer(1))>>),
                   "lambda")}

\* defun whose third element is not a list
defun_f_5 == List(<<Keyword("defun"), Symbol("f"), Integer(5)>>)
defun_f_sym == List(<<Keyword("defun"), Symbol("f"), Symbol("x")>>)
defun_f_true == List(<<Keyword("defun"), Symbol("f"), Boolean(TRUE)>>)

ErrLines ==
    {p.line : p \in IllegalLines} \cup {defun_f_5, defun_f_sym, defun_f_true, div_1_0}

NextErr == (\E e \in ErrLines : Evaluate(e, MaxErrLines)) \/ Call \/ Return \/ Abort

SpecErr == Init /\ [][NextErr]_vars

\* C15: no evaluation, nested or not, of a tree the parser can produce (a defun
\* whose third element is not a list, for example) returns the Internal or the
\* Unreachable error.
C15_NoInternalError ==
    /\ status = "idle" => (result.ok \/ result.v \notin {Internal, Unreachable})
    /\ \A i \in 1..Len(stack) : \A j \in 1..Len(stack[i].acc) :
            stack[i].acc[j].ok \/ stack[i].acc[j].v \notin {Internal, Unreachable}

\* C19: every illegal-argument error carries the name of the construct that raised
\* it: "or" for or, "and" for and, the operator itself for <, <=, >, >= and for
\* +, -, *, /, and likewise for not, if, def, defun and lambda.
C19_ErrorNamesItsConstruct ==
    \A p \in IllegalLines :
        Finished(<<p.line>>) =>
            /\ ~result.ok
            /\ result.v.t = "IllegalArgument"
            /\ result.v.s = p.name


---------------------------------------------------------------------------
(* the depth counter along the chain of evaluations in progress (SpecRec) *)

\* C17: the top-level evaluation runs at depth 0 and every nested evaluation,
\* whether of an operator argument, a def value, a print operand, an if part, a
\* call argument or a closure body, runs at exactly one more than the evaluation
\* that started it; hence no chain of nested evaluations grows longer than
\* MAX_RECURSION_DEPTH + 1 before the recursion-limit error is returned.
C17_DepthGrowsByOne ==
    /\ stack # <<>> => stack[1].depth = 0
    /\ \A i \in 2..Len(stack) : stack[i].depth = stack[i - 1].depth + 1
    /\ Len(stack) <= MAX_RECURSION_DEPTH + 2

=============================================================================
